---- MODULE Spec2Model ----
(***************************************************************************)
(* Selection / highlight state of the EVE 3D map viewer.                   *)
(*                                                                         *)
(* Two stores hold view state:                                             *)
(*   - the useMapControl hook (selectedSystemId, highlightedRegionId,      *)
(*     highlightedSystemIds, version, animationFrameRef), driven by the    *)
(*     host through selectSystem / highlightRegion / highlightSystems;     *)
(*   - the EveMap3D component (selectedSystemId, highlightedSystemIds,     *)
(*     internalHighlightedRegionId) together with its props                *)
(*     highlightedRegionId (the external override) and focus, driven by    *)
(*     clicks, the context menu and prop changes, and updated by three     *)
(*     React effects.                                                      *)
(* Every action is one host/user event followed by the React render and    *)
(* effect cascade it causes, run until no effect dependency changes.       *)
(* Optional values are sequences: <<>> is null/undefined, <<x>> is x.      *)
(***************************************************************************)
EXTENDS Integers, Sequences, FiniteSets, TLC

\* ---------------------------------------------------------------- dataset
\* Systems of the loaded dataset and their regionID.
Dataset == {1, 3}
RegionOf == (1 :> 10) @@ (3 :> 20)
\* Ids the host may pass: the dataset plus one id that no system has.
SysInputs == Dataset \cup {9}
\* Region ids the host may pass; region 30 has no member system.
RegionInputs == {10, 20, 30}

\* Bound on the hook's version counter (number of hook mutations explored).
MaxVersion == 2

Null == <<>>
Some(x) == <<x>>

VARIABLES
  loaded,      \* the systems prop / filteredSystems / systemsRef hold the dataset
  hSel,        \* hook: selectedSystemId
  hRegion,     \* hook: highlightedRegionId
  hHL,         \* hook: highlightedSystemIds (array)
  version,     \* hook: versionRef
  hookAnim,    \* hook: animation scheduled through animationFrameRef
  cSel,        \* component: selectedSystemId
  cHL,         \* component: highlightedSystemIds (Set)
  cInt,        \* component: internalHighlightedRegionId
  ext,         \* prop highlightedRegionId: [set |-> FALSE] is undefined
  focus,       \* prop focus: <<>> or <<[type, targetId]>>
  lastOvRef,   \* Scene: lastHighlightedRegionIdRef
  ovAnim,      \* Scene: animation of the external-region camera effect
  focAnim,     \* Scene: animation of the focus camera effect
  lastOp,      \* the event handled by the last step
  lastArg,     \* its argument: the id or ids passed, <<>> for null or none
  cbClick,     \* argument of events.onSystemClick fired by the last step
  flyLog,      \* fly-to animations started by the last step, in order
  subs,        \* hook: subscribersRef, the set of subscribed callbacks
  notified,    \* times each callback was invoked by the last step
  camera,      \* the scene's camera state, a record (see CameraInit)
  hit,         \* SolarSystemPoints: groups, meshes and click handler (see HitInit)
  decl,        \* a call of detectLabelVisibility in progress (see DeclInit)
  throttle     \* the label layer's frame counter and velocity (see ThrottleInit)

viewVars == <<loaded, hSel, hRegion, hHL, version, hookAnim, cSel, cHL, cInt, ext,
              focus, lastOvRef, ovAnim, focAnim, lastOp, lastArg, cbClick, flyLog>>
pubsubVars == <<subs, notified>>
\* Variables of the other parts of the viewer, which the view-state actions
\* leave alone.
camVars == <<camera>>
hitVars == <<hit>>
declVars == <<decl>>
throttleVars == <<throttle>>
otherVars == <<camVars, hitVars, declVars, throttleVars>>

vars == <<viewVars, pubsubVars, otherVars>>

hookVars == <<hSel, hRegion, hHL, version>>
compVars == <<cSel, cHL, cInt>>

Systems(ld) == IF ld THEN Dataset ELSE {}
RegionSystems(S, r) == {s \in S : RegionOf[s] = r}

ExtUnset == [set |-> FALSE, val |-> Null]
\* Values of the highlightedRegionId prop: undefined, null, a region with
\* systems and a region without.
ExtValues == {ExtUnset, [set |-> TRUE, val |-> Null]}
               \cup {[set |-> TRUE, val |-> Some(r)] : r \in {10, 30}}

\* Focus requests: a system of the dataset, an unknown system, a region with
\* systems and a region without.
FocusValues == {Some([type |-> "system", targetId |-> s]) : s \in {1, 9}}
                 \cup {Some([type |-> "region", targetId |-> r]) : r \in {10, 30}}

IsSystemFocus(f) == f # Null /\ f[1].type = "system"
IsRegionFocus(f) == f # Null /\ f[1].type = "region"

EffectiveRegion_FocusFirst(e, int, f) ==
  IF e.set THEN e.val
  ELSE IF IsRegionFocus(f) THEN Some(f[1].targetId)
  ELSE IF int # Null THEN int
  ELSE Null

\* ------------------------------------------------ EveMap3D: derived region
\* useMemo highlightedRegionId: external prop, else internal state, else
\* a region focus, else null.
EffectiveRegion(e, int, f) ==
  IF e.set THEN e.val
  ELSE IF int # Null THEN int
  ELSE IF IsRegionFocus(f) THEN Some(f[1].targetId)
  ELSE Null

highlightedRegionId == EffectiveRegion(ext, cInt, focus)

\* SolarSystemPoints.systemGroups: the systems of S drawn in a highlighted
\* group, given the highlighted region (optional) and highlighted system ids.
ShownHighlighted(S, region, hl) ==
  {s \in S : (region # Null /\ RegionOf[s] = region[1]) \/ s \in hl}

\* The ids held by the hook's highlightedSystemIds array.
ArrayIds(arr) == {arr[i] : i \in 1..Len(arr)}

\* ------------------------------------------------------ EveMap3D: effects
\* A component state is a record [sel, hl, int].  Effects read the values of
\* the render that created them (c, e, f, S) and queue writes (w); React
\* applies the queued writes in order after the effect pass.

OverrideEffect_KeepsSelection(w, e) ==
  IF e.set THEN [sel |-> w.sel, hl |-> {}, int |-> Null] ELSE w

OverrideEffect_KeepsInternal(w, e) ==
  IF e.set THEN [sel |-> Null, hl |-> {}, int |-> w.int] ELSE w

\* Effect on [externalHighlightedRegionId].
OverrideEffect(w, e) ==
  IF e.set THEN [sel |-> Null, hl |-> {}, int |-> Null] ELSE w

FocusEffect_RegionUnderOverride(w, e, f, S) ==
  IF f = Null THEN w
  ELSE IF f[1].type = "system"
    THEN [sel |-> Some(f[1].targetId),
          hl  |-> {f[1].targetId},
          int |-> IF f[1].targetId \in S
                    THEN Some(RegionOf[f[1].targetId]) ELSE w.int]
    ELSE [sel |-> Null, hl |-> {}, int |-> Null]

\* Effect on [focus, systems, externalHighlightedRegionId].
FocusEffect(w, e, f, S) ==
  IF f = Null THEN w
  ELSE IF f[1].type = "system"
    THEN [sel |-> Some(f[1].targetId),
          hl  |-> {f[1].targetId},
          int |-> IF f[1].targetId \in S /\ ~e.set
                    THEN Some(RegionOf[f[1].targetId]) ELSE w.int]
    ELSE [sel |-> Null, hl |-> {}, int |-> Null]

SelectedEffectFires_NoOverrideGuard(c, e, f) ==
  /\ c.sel # Null
  /\ ~IsSystemFocus(f)

\* Effect on [selectedSystemId, focus, mapControl, systems, external...]:
\* whether its body passes the guards.
SelectedEffectFires(c, e, f) ==
  /\ ~e.set
  /\ c.sel # Null
  /\ ~IsSystemFocus(f)

SelectedEffect_AddsToHighlight(w, c, e, f, S) ==
  IF SelectedEffectFires(c, e, f)
    THEN [w EXCEPT !.hl = @ \cup {c.sel[1]},
                   !.int = IF c.sel[1] \in S THEN Some(RegionOf[c.sel[1]]) ELSE @]
    ELSE w

SelectedEffect_NoRegion(w, c, e, f, S) ==
  IF SelectedEffectFires(c, e, f) THEN [w EXCEPT !.hl = {c.sel[1]}] ELSE w

\* The writes of that effect: the highlighted systems and the internal region.
SelectedEffect(w, c, e, f, S) ==
  IF SelectedEffectFires(c, e, f)
    THEN [w EXCEPT !.hl = {c.sel[1]},
                   !.int = IF c.sel[1] \in S THEN Some(RegionOf[c.sel[1]]) ELSE @]
    ELSE w

\* One commit: the effects whose dependencies changed run in declaration
\* order.  ch is the set of changed dependencies.  Result: the component
\* state after the queued writes, and the ids passed to mapControl.focusSystem.
EffectPass(c, e, f, S, ch) ==
  LET w1 == IF "ext" \in ch THEN OverrideEffect(c, e) ELSE c
      w2 == IF ch \cap {"focus", "systems", "ext"} # {}
              THEN FocusEffect(w1, e, f, S) ELSE w1
      runSel == ch \cap {"sel", "focus", "mapControl", "systems", "ext"} # {}
      w3 == IF runSel THEN SelectedEffect(w2, c, e, f, S) ELSE w2
  IN [c |-> w3,
      calls |-> IF runSel /\ SelectedEffectFires(c, e, f) THEN <<c.sel[1]>> ELSE <<>>]

\* Render/effect cascade after an event: a second commit follows when the
\* first changed selectedSystemId (no effect writes a dependency of another
\* effect except selectedSystemId, and the selected effect does not write it).
Settle(c, e, f, S, ch) ==
  LET p1 == EffectPass(c, e, f, S, ch)
  IN IF ch = {} THEN [c |-> c, calls |-> <<>>]
     ELSE IF p1.c.sel # c.sel
       THEN LET p2 == EffectPass(p1.c, e, f, S, {"sel"})
            IN [c |-> p2.c, calls |-> p1.calls \o p2.calls]
       ELSE p1

\* --------------------------------------------------- hook: camera fly-tos
\* A camera record is [anim, log]: the animation scheduled through
\* animationFrameRef and the fly-tos started so far in this step.

focusSystem_NoLookup(cam, id, S) ==
  [anim |-> Some([kind |-> "system", target |-> id]),
   log |-> Append(cam.log, [by |-> "focusSystem", kind |-> "system", target |-> id])]

\* focusSystem: no-op unless the system is in systemsRef; otherwise cancels
\* the scheduled frame and schedules the new animation.
focusSystem(cam, id, S) ==
  IF id \in S
    THEN [anim |-> Some([kind |-> "system", target |-> id]),
          log |-> Append(cam.log, [by |-> "focusSystem", kind |-> "system", target |-> id])]
    ELSE cam

focusRegion_Never(cam, r, S) == cam

\* focusRegion: no-op when the region has no system in systemsRef.
focusRegion(cam, r, S) ==
  IF RegionSystems(S, r) # {}
    THEN [anim |-> Some([kind |-> "region", target |-> r]),
          log |-> Append(cam.log, [by |-> "focusRegion", kind |-> "region", target |-> r])]
    ELSE cam

RECURSIVE FocusSystemCalls(_, _, _)
\* The camera record after the focusSystem calls of an effect cascade.
FocusSystemCalls(cam, calls, S) ==
  IF calls = <<>> THEN cam
  ELSE FocusSystemCalls(focusSystem(cam, Head(calls), S), Tail(calls), S)

\* ------------------------------------------------- Scene: camera effects
\* Effect on [externalHighlightedRegionId, filteredSystems, camera]: the
\* cleanup of the previous run cancels its animation; the body starts a
\* fly-to to the region unless the ref already holds it.
OverrideCameraEffect(ref, e, S) ==
  IF ~e.set THEN [ref |-> ref, anim |-> Null, log |-> <<>>]
  ELSE IF e.val = Null \/ S = {} THEN [ref |-> e.val, anim |-> Null, log |-> <<>>]
  ELSE IF ref = e.val THEN [ref |-> ref, anim |-> Null, log |-> <<>>]
  ELSE IF RegionSystems(S, e.val[1]) = {} THEN [ref |-> e.val, anim |-> Null, log |-> <<>>]
  ELSE [ref |-> e.val,
        anim |-> Some([kind |-> "region", target |-> e.val[1]]),
        log |-> <<[by |-> "overrideEffect", kind |-> "region", target |-> e.val[1]]>>]

\* Effect on [focus, filteredSystems, camera, onFocusComplete].
FocusCameraEffect(f, S) ==
  IF f = Null \/ S = {} THEN [anim |-> Null, log |-> <<>>]
  ELSE IF f[1].type = "system"
    THEN IF f[1].targetId \in S
           THEN [anim |-> Some([kind |-> "system", target |-> f[1].targetId]),
                 log |-> <<[by |-> "focusEffect", kind |-> "system", target |-> f[1].targetId]>>]
           ELSE [anim |-> Null, log |-> <<>>]
    ELSE IF RegionSystems(S, f[1].targetId) # {}
           THEN [anim |-> Some([kind |-> "region", target |-> f[1].targetId]),
                 log |-> <<[by |-> "focusEffect", kind |-> "region", target |-> f[1].targetId]>>]
           ELSE [anim |-> Null, log |-> <<>>]

\* ------------------------------------------------------------------ camera
\* Values of filteredSystems once the dataset is there: all of it, or the
\* part a systemFilter keeps.
SystemSets == {{1, 3}, {1}}
\* Animation time is counted in ticks of 750 ms: the default duration of
\* 1500 ms is 2 ticks.
DefaultDuration == 2
\* JavaScript numbers as the animation code meets them: a finite number of
\* ticks, NaN, Infinity, or undefined (the argument is not given).
Num(n) == [k |-> "num", v |-> n]
NaN == [k |-> "nan", v |-> 0]
Infinity == [k |-> "inf", v |-> 0]
Undefined == [k |-> "undefined", v |-> 0]
\* Durations a caller passes (focusSystem's animationDuration, the focus
\* request's animationDuration): none, or one longer than the default.
DurationInputs == {Undefined, Num(3)}
\* Durations that are no length of time: zero, negative, NaN, Infinity.
InvalidDurations == {Num(0), Num(-1), NaN, Infinity}
\* focusSystem(id, animationDuration = 1500): the default parameter value
\* stands in for undefined only.
HookDuration(d) == IF d = Undefined THEN Num(DefaultDuration) ELSE d
\* focus.animationDuration || 1500: the default stands in for every falsy
\* value (undefined, 0, NaN).
EffectDuration(d) == IF d \in {Undefined, Num(0), NaN} THEN Num(DefaultDuration) ELSE d
\* Math.min(elapsed / duration, 1) for elapsed >= 0, as the range it falls in:
\* "nan", "neg" (below 0), "zero", "mid" (between 0 and 1), "one".
Progress(el, dur) ==
  IF dur.k = "nan" THEN "nan"
  ELSE IF dur.k = "inf" THEN "zero"
  ELSE IF dur.v = 0 THEN (IF el = 0 THEN "nan" ELSE "one")
  ELSE IF el = 0 THEN "zero"
  ELSE IF dur.v < 0 THEN "neg"
  ELSE IF el >= dur.v THEN "one" ELSE "mid"
\* Frame gaps: the next frame comes one or two ticks after the last.
FrameGaps == {1, 2}
\* Completion calls are counted up to this many.
CallCap == 2

\* A pose is named by what computed it: [by, kind, target].
PoseDefault == [by |-> "construct", kind |-> "default", target |-> 0]
\* The bounding box of S, named by its least and greatest member.
BoxCode(S) ==
  10 * (CHOOSE m \in S : \A x \in S : m <= x) + (CHOOSE m \in S : \A x \in S : m >= x)
\* Initial camera effect: the pose computed from the box of all filtered systems.
InitialPose(S) == [by |-> "initEffect", kind |-> "initial", target |-> BoxCode(S)]
\* A pose interpolated with eased progress strictly between 0 and 1.
MidPose(to) == [by |-> to.by, kind |-> "mid", target |-> to.target]
\* A pose interpolated with progress 0: the pose the fly-to started from.
StartPose(to) == [by |-> to.by, kind |-> "start", target |-> to.target]
\* A pose interpolated with negative progress: on the far side of the start.
BeyondPose(to) == [by |-> to.by, kind |-> "beyond", target |-> to.target]
\* A pose interpolated with progress NaN: every coordinate is NaN.
NaNPose(to) == [by |-> to.by, kind |-> "nan", target |-> to.target]
\* The pose animate writes for a progress value.
PoseAt(pr, to) ==
  CASE pr = "one" -> to
    [] pr = "mid" -> MidPose(to)
    [] pr = "zero" -> StartPose(to)
    [] pr = "neg" -> BeyondPose(to)
    [] OTHER -> NaNPose(to)
\* The elapsed time a session records gap ticks later: counted up to a
\* positive finite duration, and as "some" (1) under any other duration.
Elapsed(x, gap) ==
  IF x.dur.k = "num" /\ x.dur.v > 0
    THEN (IF x.el + gap >= x.dur.v THEN x.dur.v ELSE x.el + gap)
    ELSE 1
\* if (progress < 1) requestAnimationFrame(animate): false for 1 and for NaN.
Continues(pr) == pr \in {"neg", "zero", "mid"}

\* cancelAnimationFrame of the owner's pending frame.
CancelSession(q, owner) == SelectSeq(q, LAMBDA x : x.owner # owner)
\* requestAnimationFrame(animate) of a new session of duration dur.
StartSession(q, owner, to, dur) ==
  Append(CancelSession(q, owner),
         [owner |-> owner, to |-> to, el |-> 0, dur |-> dur])

\* The camera state of a mounted viewer:
\*   systems  Scene filteredSystems (also the hook's systemsRef)
\*   ext      Scene prop externalHighlightedRegionId
\*   int      EveMap3D state internalHighlightedRegionId
\*   focus    Scene prop focus: <<>> or <<[type, targetId, dur]>>
\*   ov       Scene lastHighlightedRegionIdRef
\*   init     Scene cameraInitializedRef
\*   ip       hook initialCameraPositionRef / initialCameraTargetRef
\*   pose     the camera pose (camera position and controls target)
\*   q        animation sessions with a pending frame, in request order
\*   done     onFocusComplete invocations for the focus request object held
\*   latest   the fly-to started last and what became of it
\*   op, arg  the hook method the last step called and its id, or "remount"
\*   disposed the viewer was unmounted for good
CameraInit ==
  [systems |-> {}, ext |-> ExtUnset, int |-> Null, focus |-> Null, ov |-> Null,
   init |-> FALSE, ip |-> Null, pose |-> PoseDefault, q |-> <<>>,
   done |-> 0, latest |-> Null,
   op |-> "none", arg |-> 0, disposed |-> FALSE]

\* A fly-to starts: the owner's pending frame is cancelled and the session
\* is queued.
StartIn(sc, owner, to, dur) ==
  [sc EXCEPT !.q = StartSession(sc.q, owner, to, dur),
             !.latest = Some([to |-> to, owner |-> owner, state |-> "running"])]

\* The owner's pending frame is cancelled and nothing is started.
CancelIn(sc, owner) ==
  [sc EXCEPT !.q = CancelSession(sc.q, owner),
             !.latest = IF sc.latest # Null /\ sc.latest[1].owner = owner
                           /\ sc.latest[1].state = "running"
                          THEN Some([sc.latest[1] EXCEPT !.state = "cancelled"])
                          ELSE sc.latest]

InitCameraEffect_NoInitializedGuard(sc, S, hl, f) ==
  IF S = {} \/ hl # Null \/ f # Null THEN sc
  ELSE [sc EXCEPT !.pose = InitialPose(S), !.init = TRUE, !.ip = Some(InitialPose(S)),
                  !.latest = Null]

\* Scene effect on [filteredSystems, highlightedRegionId, focus, mapControl]:
\* once per mount, writes the pose directly and hands it to the hook.
InitCameraEffect(sc, S, hl, f) ==
  IF S = {} \/ sc.init \/ hl # Null \/ f # Null THEN sc
  ELSE [sc EXCEPT !.pose = InitialPose(S), !.init = TRUE, !.ip = Some(InitialPose(S)),
                  !.latest = Null]

\* Scene effect on [externalHighlightedRegionId, filteredSystems, camera],
\* re-run: the cleanup cancels its pending frame, the body may start a fly-to.
OverrideCameraRun(sc, e, S) ==
  LET r == OverrideCameraEffect(sc.ov, e, S)
      sc1 == [sc EXCEPT !.ov = r.ref]
  IN IF r.log # <<>> THEN StartIn(sc1, "override", r.log[1], Num(DefaultDuration))
     ELSE CancelIn(sc1, "override")

\* Scene effect on [focus, filteredSystems, camera, onFocusComplete], re-run.
FocusCameraRun(sc, f, S) ==
  LET r == FocusCameraEffect(f, S)
  IN IF r.log # <<>> THEN StartIn(sc, "focus", r.log[1], EffectDuration(f[1].dur))
     ELSE CancelIn(sc, "focus")

RECURSIVE RunFrame(_, _, _)
\* One display frame, gap ticks after the last: the pending animate callbacks
\* run in the order they were requested.  acc is [pose, q, done].
RunFrame(q, gap, acc) ==
  IF q = <<>> THEN acc
  ELSE LET x == Head(q)
           el == Elapsed(x, gap)
           pr == Progress(el, x.dur)
           fin == ~Continues(pr)
           p == PoseAt(pr, x.to)
       IN RunFrame(Tail(q), gap,
            [pose |-> p,
             q |-> IF fin THEN acc.q ELSE Append(acc.q, [x EXCEPT !.el = el]),
             done |-> IF fin /\ x.owner = "focus" THEN acc.done + 1 ELSE acc.done])

\* ------------------------------------------------ SolarSystemPoints: picking
\* Systems of the picking model with their security status (in hundredths)
\* and region; 1 and 2 are high security, 3 is low security.
HitSystems == {1, 2, 3}
Security == (1 :> 90) @@ (2 :> 45) @@ (3 :> 10)
HitRegionOf == (1 :> 10) @@ (2 :> 10) @@ (3 :> 20)
\* Values of the systems prop (the filtered list, in its order).
HitLists == {<<1, 2, 3>>, <<2, 3>>, <<3, 1>>}
\* Values of highlightedRegionId and highlightedSystemIds.
HitRegionInputs == {Null, Some(20)}
HitIdInputs == {{}, {1}, {2}}

\* The meshes in the order handleClick tests them: highsec normal and
\* highlighted, lowsec normal and highlighted, nullsec normal and highlighted.
Buckets == 1..6

\* systemGroups: the bucket of a system without a custom render config.
BucketOf(s, region, ids) ==
  LET isHighlighted == (region # Null /\ HitRegionOf[s] = region[1]) \/ s \in ids
      category == IF Security[s] >= 45 THEN 0 ELSE IF Security[s] >= 0 THEN 1 ELSE 2
  IN 2 * category + (IF isHighlighted THEN 2 ELSE 1)

\* systemGroups: each bucket's systems in the order of the list.
SystemGroups(list, region, ids) ==
  [b \in Buckets |-> SelectSeq(list, LAMBDA s : BucketOf(s, region, ids) = b)]

NoGroups == [b \in Buckets |-> <<>>]

\* A mesh is the sequence of the systems whose position is written in its
\* instance matrices; 0 is an instance that was never written.  An
\* instancedMesh is keyed by its bucket and length: a bucket whose length
\* changes gets a new mesh, one whose length stays keeps its mesh.
CommitMeshes(meshes, groups) ==
  [b \in Buckets |->
     IF Len(groups[b]) = Len(meshes[b]) THEN meshes[b]
     ELSE [i \in 1..Len(groups[b]) |-> 0]]

\* The matrix update effect: setMatrixAt(index, position of groups[index]).
WriteMatrices(meshes, groups) ==
  [b \in Buckets |-> IF meshes[b] = <<>> THEN <<>> ELSE groups[b]]

NoHit == [hit |-> FALSE, bucket |-> 0, index |-> 0, id |-> 0]

RECURSIVE ResolveHit_NoRangeCheck(_, _, _)
ResolveHit_NoRangeCheck(b, picks, groups) ==
  IF b \notin Buckets THEN NoHit
  ELSE IF picks[b] # 0
    THEN [hit |-> TRUE, bucket |-> b, index |-> picks[b],
          id |-> IF picks[b] <= Len(groups[b]) THEN groups[b][picks[b]] ELSE 0]
    ELSE ResolveHit_NoRangeCheck(b + 1, picks, groups)

RECURSIVE ResolveHit(_, _, _)
\* handleClick's loop from mesh b on: picks[b] is the instance (counted from
\* 1) the ray hits first in mesh b, 0 when it hits none; groups are the
\* systemGroups of the handler's closure.  id 0 is groupSystems[instanceId]
\* = undefined.
ResolveHit(b, picks, groups) ==
  IF b \notin Buckets THEN NoHit
  ELSE IF picks[b] # 0 /\ picks[b] <= Len(groups[b])
    THEN [hit |-> TRUE, bucket |-> b, index |-> picks[b], id |-> groups[b][picks[b]]]
    ELSE ResolveHit(b + 1, picks, groups)

\* The picking state:
\*   list, region, ids  props of the last render
\*   groups             systemGroups of the last render
\*   meshes             the mounted instanced meshes
\*   handler            systemGroups in the closure of the click listener
\*   pending            the effects of the last commit have not run yet
\*   clicked, picks, out  whether the last step was a click, what its ray
\*                      hit and what handleClick reported
HitInit ==
  [list |-> <<>>, region |-> Null, ids |-> {}, groups |-> NoGroups,
   meshes |-> NoGroups, handler |-> NoGroups, pending |-> FALSE,
   picks |-> [b \in Buckets |-> 0], out |-> NoHit, clicked |-> FALSE]

\* ------------------------------------------------- label overlap detection
\* Screen lengths are counted in units of 0.025, so that the grid's cell
\* size of 0.15 is 6 units.  A label is [x, y, w, h]: its screen position
\* and its screen width and height; its id is its place in the sorted array.
CellSize == 6
\* Bound on the labels of one call.
MaxLabels == 3
\* Labels of a call: centres left and right of the origin, on two rows;
\* small labels inside one cell, labels that end on a cell boundary and
\* labels that span several cells.
LabelInputs ==
  {[x |-> x, y |-> y, w |-> d[1], h |-> d[2]] :
     x \in {-4, 3}, y \in {0, 4}, d \in {<<2, 2>>, <<6, 6>>, <<13, 3>>}}

GetOccupiedCells_CentreOnly(l) == {<<(2 * l.x) \div (2 * CellSize), (2 * l.y) \div (2 * CellSize)>>}

\* SpatialHashGrid.getOccupiedCells: floor((pos -+ size / 2) / cellSize),
\* computed on doubled lengths.
GetOccupiedCells(l) ==
  LET minCellX == (2 * l.x - l.w) \div (2 * CellSize)
      maxCellX == (2 * l.x + l.w) \div (2 * CellSize)
      minCellY == (2 * l.y - l.h) \div (2 * CellSize)
      maxCellY == (2 * l.y + l.h) \div (2 * CellSize)
  IN {<<cx, cy>> : cx \in minCellX..maxCellX, cy \in minCellY..maxCellY}

Abs(n) == IF n < 0 THEN -n ELSE n

\* checkLabelOverlap: dx < (wa + wb) / 2 and dy < (ha + hb) / 2.
CheckLabelOverlap(a, b) ==
  /\ 2 * Abs(a.x - b.x) < a.w + b.w
  /\ 2 * Abs(a.y - b.y) < a.h + b.h

\* SpatialHashGrid.getPotentialCollisions: the ids stored in the cells of l;
\* the grid is the set of <<cell, id>> entries.
GetPotentialCollisions(grid, l) ==
  {e[2] : e \in {e \in grid : e[1] \in GetOccupiedCells(l)}}

\* SpatialHashGrid.add
GridAdd(grid, l, id) == grid \cup {<<c, id>> : c \in GetOccupiedCells(l)}

\* A call of detectLabelVisibility: the sorted labels, the number of labels
\* the loop has handled, the visible ids and the grid; first is what the
\* caller got from the call before when it calls again with the same input.
DeclInit == [labels |-> <<>>, k |-> 0, visible |-> {}, grid |-> {}, first |-> Null]

\* The locals at the start of the loop: a new visible set and a new grid.
DeclStart(labels) == [labels |-> labels, k |-> 0, visible |-> {}, grid |-> {}, first |-> Null]

DeclPass_Displaces(d) ==
  LET id == d.k + 1
      label == d.labels[id]
      hit1 == {v \in GetPotentialCollisions(d.grid, label) :
                 v \in d.visible /\ CheckLabelOverlap(label, d.labels[v])}
  IN [d EXCEPT !.k = id, !.visible = (@ \ hit1) \cup {id}, !.grid = GridAdd(@, label, id)]

DeclPass_HidesEarlierVisible(d) ==
  LET id == d.k + 1
      label == d.labels[id]
      hasOverlap == \/ d.first # Null /\ id \in d.first[1]
                    \/ \E v \in GetPotentialCollisions(d.grid, label) :
                         v \in d.visible /\ CheckLabelOverlap(label, d.labels[v])
  IN [d EXCEPT !.k = id,
               !.visible = IF hasOverlap THEN @ ELSE @ \cup {id},
               !.grid = IF hasOverlap THEN @ ELSE GridAdd(@, label, id)]

\* One pass of the loop over sortedLabels, for the label after the k handled.
DeclPass(d) ==
  LET id == d.k + 1
      label == d.labels[id]
      hasOverlap == \E v \in GetPotentialCollisions(d.grid, label) :
                      v \in d.visible /\ CheckLabelOverlap(label, d.labels[v])
  IN [d EXCEPT !.k = id,
               !.visible = IF hasOverlap THEN @ ELSE @ \cup {id},
               !.grid = IF hasOverlap THEN @ ELSE GridAdd(@, label, id)]

RECURSIVE DeclRun(_)
\* The locals when the loop has ended.
DeclRun(d) == IF d.k = Len(d.labels) THEN d ELSE DeclRun(DeclPass(d))

\* detectLabelVisibility on labels that are in priority order.
DetectLabelVisibility(labels) == DeclRun(DeclStart(labels)).visible

\* ------------------------------------------------- label update throttle
MIN_STABILITY_THRESHOLD == 5
MAX_STABILITY_THRESHOLD == 30
\* Velocities and camera movements are counted in units of 4e12: the
\* velocity 1e15, at and above which velocityNormalized is 1, is 250 units.
VelocityOne == 250
\* Frames are counted up to this many.
MaxFrames == 40
\* Camera movement (positionDelta + targetDelta) between two frames: none,
\* 2e14, or 5e15.
MovementInputs == {0, 50, 1250}

\* cameraVelocityRef.current * 0.8 + totalMovement * 0.2, rounded down to
\* the unit.
SmoothVelocity(v, m) == (4 * v + m) \div 5

\* velocityNormalized = Math.min(velocity / 1e15, 1.0) and
\* Math.round(MAX - velocityNormalized * (MAX - MIN)), where Math.round(x) is
\* floor(x + 1/2).
DynamicThreshold(v) ==
  LET vc == IF v > VelocityOne THEN VelocityOne ELSE v
      span == MAX_STABILITY_THRESHOLD - MIN_STABILITY_THRESHOLD
  IN (2 * (MAX_STABILITY_THRESHOLD * VelocityOne - vc * span) + VelocityOne)
        \div (2 * VelocityOne)

\* The throttle state:
\*   frame      frameCounterRef
\*   vel        cameraVelocityRef
\*   threshold  dynamicThreshold of the last frame
\*   since      frames since the last call of updateRegionLabels and
\*              updateSystemLabels (since the mount before the first)
ThrottleInit ==
  [frame |-> 0, vel |-> 0, threshold |-> MAX_STABILITY_THRESHOLD, since |-> 0]

\* ------------------------------------------------------- hook: subscribers
\* Callbacks a host may subscribe.  "once" is a one-shot listener: it calls
\* the unsubscribe function that subscribe returned when it is invoked.
Callbacks == {"a", "b", "once"}
NoCalls == [cb \in Callbacks |-> 0]

NotifyCalls_None(S) == NoCalls

\* notifySubscribers: subscribersRef.current.forEach(callback => callback()).
NotifyCalls(S) == [cb \in Callbacks |-> IF cb \in S THEN 1 ELSE 0]

\* The subscriber set after the callbacks ran.
SubsAfterNotify(S) == S \ {"once"}

\* A step that calls no subscriber.
NoNotify == notified' = NoCalls /\ UNCHANGED subs

\* getSelectedSystemId, getHighlightedRegionId and getHighlightedSystemIds
\* called inside a subscriber callback: each getter returns the state value
\* of the render that made it, and notifySubscribers runs inside the
\* mutating method, before React applies the set-state calls of that method.
\* h is the hook state when the method was called.
GettersInCallback(h) == h

\* ---------------------------------------------------------------- initial
Init ==
  /\ loaded = FALSE
  /\ hSel = Null /\ hRegion = Null /\ hHL = <<>> /\ version = 0
  /\ hookAnim = Null
  /\ cSel = Null /\ cHL = {} /\ cInt = Null
  /\ ext = ExtUnset /\ focus = Null
  /\ lastOvRef = Null /\ ovAnim = Null /\ focAnim = Null
  /\ lastOp = "init" /\ lastArg = Null
  /\ cbClick = Null
  /\ flyLog = <<>>
  /\ subs = {}
  /\ notified = NoCalls
  /\ camera = CameraInit
  /\ hit = HitInit
  /\ decl = DeclInit
  /\ throttle = ThrottleInit

Comp == [sel |-> cSel, hl |-> cHL, int |-> cInt]

\* The component part of a step: the cascade result st is stored.
ApplyComp(st) ==
  /\ cSel' = st.c.sel
  /\ cHL' = st.c.hl
  /\ cInt' = st.c.int

\* ------------------------------------------------------------ hook actions
OptSysInputs == {Null} \cup {Some(s) : s \in SysInputs}
OptRegionInputs == {Null} \cup {Some(r) : r \in RegionInputs}
HighlightRegionInputs == {Null, Some(20), Some(30)}
HighlightInputs == {<<1, 3>>}

\* The hook's three useState values as a record [sel, region, hl].
HookState == [sel |-> hSel, region |-> hRegion, hl |-> hHL]

SelectSystemState_ClearsRegion(h, a, S) ==
  [sel |-> a,
   hl |-> IF a # Null THEN <<a[1]>> ELSE <<>>,
   region |-> IF a # Null /\ a[1] \in S THEN Some(RegionOf[a[1]]) ELSE Null]

\* State writes of selectSystem(systemId).
SelectSystemState(h, a, S) ==
  [sel |-> a,
   hl |-> IF a # Null THEN <<a[1]>> ELSE <<>>,
   region |-> IF a # Null /\ a[1] \in S THEN Some(RegionOf[a[1]]) ELSE h.region]

HighlightRegionState_KeepsSelection(h, a) ==
  [region |-> a, sel |-> h.sel, hl |-> h.hl]

\* State writes of highlightRegion(regionId).
HighlightRegionState(h, a) ==
  [region |-> a,
   sel |-> IF a # Null THEN Null ELSE h.sel,
   hl |-> IF a # Null THEN <<>> ELSE h.hl]

\* A hook mutation: the state writes h are stored, notifySubscribers bumps
\* the version, and, when a state value changed, the memoised mapControl
\* object is a new one, so the component effect that depends on it runs
\* again after the handler (cam is the camera record the handler left).
HookStep(h, cam, changed) ==
  LET S == Systems(loaded)
      st == Settle(Comp, ext, focus, S, IF changed THEN {"mapControl"} ELSE {})
      cam2 == FocusSystemCalls(cam, st.calls, S)
  IN /\ version < MaxVersion
     /\ hSel' = h.sel /\ hRegion' = h.region /\ hHL' = h.hl
     /\ version' = version + 1
     /\ notified' = NotifyCalls(subs)
     /\ subs' = SubsAfterNotify(subs)
     /\ ApplyComp(st)
     /\ hookAnim' = cam2.anim
     /\ flyLog' = cam2.log
     /\ cbClick' = Null
     /\ UNCHANGED <<loaded, ext, focus, lastOvRef, ovAnim, focAnim, otherVars>>

Cam0 == [anim |-> hookAnim, log |-> <<>>]

\* mapControl.selectSystem(systemId); the new highlightedSystemIds array is
\* always a new state value.
selectSystem(a) ==
  LET S == Systems(loaded) IN
  /\ HookStep(SelectSystemState(HookState, a, S),
              IF a # Null THEN focusSystem(Cam0, a[1], S) ELSE Cam0,
              TRUE)
  /\ lastOp' = "selectSystem" /\ lastArg' = a

\* mapControl.highlightRegion(regionId); highlightRegion(null) on a null
\* region changes no state value.
highlightRegion(a) ==
  LET S == Systems(loaded) IN
  /\ HookStep(HighlightRegionState(HookState, a),
              IF a # Null THEN focusRegion(Cam0, a[1], S) ELSE Cam0,
              a # Null \/ hRegion # Null)
  /\ lastOp' = "highlightRegion" /\ lastArg' = a

\* mapControl.highlightSystems(systemIds)
highlightSystems(ids) ==
  /\ HookStep([HookState EXCEPT !.hl = ids], Cam0, TRUE)
  /\ lastOp' = "highlightSystems" /\ lastArg' = ids

\* mapControl.setConfig(newConfig): the config state gets a new object, so
\* getConfig and with it the mapControl object are new ones.
setConfig ==
  /\ HookStep(HookState, Cam0, TRUE)
  /\ lastOp' = "setConfig" /\ lastArg' = Null

\* mapControl.__internal.subscribe(callback)
subscribe(cb) ==
  /\ cb \notin subs
  /\ subs' = subs \cup {cb}
  /\ notified' = NoCalls
  /\ lastOp' = "subscribe" /\ lastArg' = Null
  /\ cbClick' = Null /\ flyLog' = <<>>
  /\ UNCHANGED <<hookVars, compVars, loaded, ext, focus, lastOvRef,
                 hookAnim, ovAnim, focAnim, otherVars>>

\* The function subscribe returned, called by the host.
unsubscribe(cb) ==
  /\ cb \in subs
  /\ subs' = subs \ {cb}
  /\ notified' = NoCalls
  /\ lastOp' = "unsubscribe" /\ lastArg' = Null
  /\ cbClick' = Null /\ flyLog' = <<>>
  /\ UNCHANGED <<hookVars, compVars, loaded, ext, focus, lastOvRef,
                 hookAnim, ovAnim, focAnim, otherVars>>

\* ------------------------------------------------------- component actions
\* After a component event: store the cascade and run its focusSystem calls;
\* log holds the fly-tos the scene's own effects started.
CompCascade(st, log) ==
  LET cam2 == FocusSystemCalls(Cam0, st.calls, Systems(loaded)) IN
  /\ ApplyComp(st)
  /\ hookAnim' = cam2.anim
  /\ flyLog' = cam2.log \o log

ClickCallback_Missing(s) == Null

\* events.onSystemClick(system) in handleSystemClick.
ClickCallback(s) == Some(s)

\* A click that hits the instance of system s: handleClick of the points
\* layer calls onSystemClick = handleSystemClick.
handleSystemClick(s) ==
  LET S == Systems(loaded)
      st == Settle([Comp EXCEPT !.sel = Some(s)], ext, focus, S,
                   IF Some(s) # cSel THEN {"sel"} ELSE {})
  IN /\ s \in S
     /\ CompCascade(st, <<>>)
     /\ cbClick' = ClickCallback(s)
     /\ lastOp' = "click" /\ lastArg' = Some(s)
     /\ NoNotify
     /\ UNCHANGED <<hookVars, loaded, ext, focus, lastOvRef, ovAnim, focAnim, otherVars>>

\* Context menu item "Deselect", offered when the selected system exists.
Deselect ==
  LET S == Systems(loaded)
      st == Settle([Comp EXCEPT !.sel = Null, !.hl = {}], ext, focus, S, {"sel"})
  IN /\ cSel # Null
     /\ cSel[1] \in S
     /\ CompCascade(st, <<>>)
     /\ cbClick' = Null
     /\ lastOp' = "deselect" /\ lastArg' = Null
     /\ NoNotify
     /\ UNCHANGED <<hookVars, loaded, ext, focus, lastOvRef, ovAnim, focAnim, otherVars>>

\* The host renders the viewer with highlightedRegionId = v.
setExternalRegionOverride(v) ==
  LET S == Systems(loaded)
      changed == v # ext
      st == Settle(Comp, v, focus, S, IF changed THEN {"ext"} ELSE {})
      cam == OverrideCameraEffect(lastOvRef, v, S)
  IN /\ ext' = v
     /\ CompCascade(st, IF changed THEN cam.log ELSE <<>>)
     /\ lastOvRef' = IF changed THEN cam.ref ELSE lastOvRef
     /\ ovAnim' = IF changed THEN cam.anim ELSE ovAnim
     /\ cbClick' = Null
     /\ lastOp' = "setExternalRegionOverride" /\ lastArg' = v.val
     /\ NoNotify
     /\ UNCHANGED <<hookVars, loaded, focus, focAnim, otherVars>>

\* The host renders the viewer with a new focus request object (or none).
applyFocus(f) ==
  LET S == Systems(loaded)
      changed == f # Null \/ focus # Null
      st == Settle(Comp, ext, f, S, IF changed THEN {"focus"} ELSE {})
      cam == FocusCameraEffect(f, S)
  IN /\ focus' = f
     /\ CompCascade(st, IF changed THEN cam.log ELSE <<>>)
     /\ focAnim' = IF changed THEN cam.anim ELSE focAnim
     /\ cbClick' = Null
     /\ lastOp' = "applyFocus" /\ lastArg' = IF f = Null THEN Null ELSE Some(f[1].targetId)
     /\ NoNotify
     /\ UNCHANGED <<hookVars, loaded, ext, lastOvRef, ovAnim, otherVars>>

\* The dataset arrives: the systems prop, Scene's filteredSystems and the
\* hook's systemsRef go from empty to the dataset.  The component effects
\* and Scene's setSystems effect belong to different React roots, so a
\* focusSystem call of this cascade may see either systemsRef.
LoadData ==
  LET st == Settle(Comp, ext, focus, Dataset, {"systems"})
      ov == OverrideCameraEffect(lastOvRef, ext, Dataset)
      fc == FocusCameraEffect(focus, Dataset)
  IN /\ ~loaded
     /\ loaded' = TRUE
     /\ ApplyComp(st)
     /\ \E refReady \in BOOLEAN :
          LET R == IF refReady THEN Dataset ELSE {} IN
          /\ hookAnim' = FocusSystemCalls(Cam0, st.calls, R).anim
          /\ flyLog' = FocusSystemCalls(Cam0, st.calls, R).log \o ov.log \o fc.log
     /\ lastOvRef' = ov.ref
     /\ ovAnim' = ov.anim
     /\ focAnim' = fc.anim
     /\ cbClick' = Null
     /\ lastOp' = "loadData" /\ lastArg' = Null
     /\ NoNotify
     /\ UNCHANGED <<hookVars, ext, focus, otherVars>>

\* ------------------------------------------------------ animation frames
\* The last frame of an animation writes its target pose.
HookAnimFinish ==
  /\ hookAnim # Null
  /\ hookAnim' = Null
  /\ lastOp' = "frame" /\ lastArg' = Null
  /\ cbClick' = Null /\ flyLog' = <<>>
  /\ NoNotify
  /\ UNCHANGED <<hookVars, compVars, loaded, ext, focus, lastOvRef, ovAnim, focAnim, otherVars>>

OverrideAnimFinish ==
  /\ ovAnim # Null
  /\ ovAnim' = Null
  /\ lastOp' = "frame" /\ lastArg' = Null
  /\ cbClick' = Null /\ flyLog' = <<>>
  /\ NoNotify
  /\ UNCHANGED <<hookVars, compVars, loaded, ext, focus, lastOvRef, hookAnim, focAnim, otherVars>>

FocusAnimFinish ==
  /\ focAnim # Null
  /\ focAnim' = Null
  /\ lastOp' = "frame" /\ lastArg' = Null
  /\ cbClick' = Null /\ flyLog' = <<>>
  /\ NoNotify
  /\ UNCHANGED <<hookVars, compVars, loaded, ext, focus, lastOvRef, hookAnim, ovAnim, otherVars>>

Next ==
  \/ \E a \in OptSysInputs : selectSystem(a)
  \/ \E a \in HighlightRegionInputs : highlightRegion(a)
  \/ \E ids \in HighlightInputs : highlightSystems(ids)
  \/ \E s \in Dataset : handleSystemClick(s)
  \/ Deselect
  \/ \E v \in ExtValues : setExternalRegionOverride(v)
  \/ \E f \in FocusValues \cup {Null} : applyFocus(f)
  \/ LoadData
  \/ HookAnimFinish
  \/ OverrideAnimFinish
  \/ FocusAnimFinish

Spec == Init /\ [][Next]_vars

\* The hook alone with its subscribers: the host calls the mutating methods
\* and subscribes and unsubscribes callbacks.
PubSubNext ==
  \/ \E a \in OptSysInputs : selectSystem(a)
  \/ \E a \in HighlightRegionInputs : highlightRegion(a)
  \/ \E ids \in HighlightInputs : highlightSystems(ids)
  \/ setConfig
  \/ \E cb \in Callbacks : subscribe(cb)
  \/ \E cb \in Callbacks : unsubscribe(cb)
  \/ LoadData

SpecPubSub == Init /\ [][PubSubNext]_vars

\* ----------------------------------------------------------- camera actions
\* The variables a camera step leaves alone.
nonCameraVars == <<viewVars, pubsubVars, hitVars, declVars, throttleVars>>

\* A camera step stores the record sc with the event's name and target.
CamStep(sc, op, arg) ==
  /\ camera' = [sc EXCEPT !.op = op, !.arg = arg]
  /\ UNCHANGED nonCameraVars

\* The highlightedRegionId prop the viewer passes to the scene.
SceneHL(sc) == EffectiveRegion(sc.ext, sc.int, sc.focus)

\* The viewer's internal highlighted region after its override and focus
\* effects ran for props e, f and systems S.
CamInternal(int, e, f, S) ==
  IF e.set THEN Null
  ELSE FocusEffect([sel |-> Null, hl |-> {}, int |-> int], e, f, S).int

\* filteredSystems changes (the dataset arrives, or a filter changes).
CamLoad(S) ==
  LET sc0 == [camera EXCEPT !.systems = S,
                            !.int = CamInternal(@, camera.ext, camera.focus, S)]
      sc1 == InitCameraEffect(sc0, S, SceneHL(sc0), sc0.focus)
      sc2 == OverrideCameraRun(sc1, sc1.ext, S)
      sc3 == FocusCameraRun(sc2, sc2.focus, S)
  IN /\ S # camera.systems
     /\ CamStep(sc3, "none", 0)

\* The host passes a new focus request object with animationDuration d, or
\* none.
CamSetFocusDur(f, d) ==
  LET nf == IF f = Null THEN Null
            ELSE Some([type |-> f[1].type, targetId |-> f[1].targetId, dur |-> d])
      sc0 == [camera EXCEPT !.focus = nf, !.done = 0,
                            !.int = CamInternal(@, camera.ext, nf, camera.systems)]
      sc1 == InitCameraEffect(sc0, sc0.systems, SceneHL(sc0), nf)
      sc2 == FocusCameraRun(sc1, nf, sc1.systems)
  IN /\ f # Null \/ camera.focus # Null
     /\ CamStep(sc2, "none", 0)

\* The host passes a new focus request object without animationDuration, or
\* none.
CamSetFocus(f) == CamSetFocusDur(f, Undefined)

\* The host changes the highlightedRegionId prop.
CamSetOverride(v) ==
  LET sc0 == [camera EXCEPT !.ext = v,
                            !.int = CamInternal(@, v, camera.focus, camera.systems)]
      sc1 == InitCameraEffect(sc0, sc0.systems, SceneHL(sc0), sc0.focus)
      sc2 == OverrideCameraRun(sc1, v, sc1.systems)
  IN /\ v # camera.ext
     /\ CamStep(sc2, "none", 0)

\* A click on a system, or on empty space, sets or clears the viewer's
\* internal highlighted region.
CamSetHighlight(h) ==
  LET sc0 == [camera EXCEPT !.int = h]
      sc1 == InitCameraEffect(sc0, sc0.systems, SceneHL(sc0), sc0.focus)
  IN /\ ~camera.ext.set /\ camera.focus = Null /\ camera.systems # {}
     /\ h # camera.int
     /\ CamStep(sc1, "none", 0)

\* The host renders again with a new events.onFocusComplete function (an
\* inline events object) while the focus request stays the same object.
CamRerender ==
  /\ camera.focus # Null
  /\ CamStep(FocusCameraRun(camera, camera.focus, camera.systems), "none", 0)

\* mapControl.focusSystem(id, d)
HookFocusSystem(id, d) ==
  LET r == focusSystem([anim |-> Null, log |-> <<>>], id, camera.systems)
  IN CamStep(IF r.log # <<>> THEN StartIn(camera, "hook", r.log[1], HookDuration(d)) ELSE camera,
             "focusSystem", id)

\* mapControl.focusRegion(id, d)
HookFocusRegion(id, d) ==
  LET r == focusRegion([anim |-> Null, log |-> <<>>], id, camera.systems)
  IN CamStep(IF r.log # <<>> THEN StartIn(camera, "hook", r.log[1], HookDuration(d)) ELSE camera,
             "focusRegion", id)

\* mapControl.resetCamera(): no-op until the initial pose is known.
HookResetCamera ==
  CamStep(IF camera.ip # Null THEN StartIn(camera, "hook", camera.ip[1], Num(DefaultDuration))
             ELSE camera,
          "resetCamera", 0)

\* A display frame.
Tick(gap) ==
  LET acc == RunFrame(camera.q, gap, [pose |-> camera.pose, q |-> <<>>, done |-> 0])
      last == camera.q[Len(camera.q)]
      lt == camera.latest
  IN /\ camera.q # <<>>
     /\ CamStep([camera EXCEPT
                   !.pose = acc.pose, !.q = acc.q,
                   !.done = IF @ + acc.done > CallCap THEN CallCap ELSE @ + acc.done,
                   !.latest = IF lt # Null /\ lt[1].state = "running"
                                 /\ ~Continues(Progress(Elapsed(last, gap), last.dur))
                                THEN Some([lt[1] EXCEPT !.state = "completed"]) ELSE lt],
                "none", 0)

\* The viewer is unmounted and mounted again with the same props: the scene
\* effects' cleanups run, the new viewer has new state, a new camera and new
\* refs, and its scene's filteredSystems is empty in the first commit and
\* filled in the second.
Remount ==
  LET S == camera.systems
      sc0 == [CancelIn(CancelIn(camera, "override"), "focus")
                EXCEPT !.pose = PoseDefault, !.init = FALSE, !.ov = Null, !.latest = Null,
                       !.int = CamInternal(Null, camera.ext, camera.focus, S)]
      sc1 == OverrideCameraRun(sc0, sc0.ext, {})
      sc2 == InitCameraEffect(sc1, S, SceneHL(sc1), sc1.focus)
      sc3 == OverrideCameraRun(sc2, sc2.ext, S)
      sc4 == FocusCameraRun(sc3, sc3.focus, S)
  IN CamStep(sc4, "remount", 0)

\* Inputs of the camera steps: a focus request on a system, on a region
\* without systems, or none; the override unset or on a region with systems;
\* a system and a region that the filter may remove from the scene.
CamFocusInputs == {Null, Some([type |-> "system", targetId |-> 1]),
                   Some([type |-> "region", targetId |-> 30])}
CamExtInputs == {ExtUnset, [set |-> TRUE, val |-> Some(10)]}
CamSysInputs == {3}
CamRegionInputs == {20}

CameraNext ==
  \/ \E S \in SystemSets : CamLoad(S)
  \/ \E f \in CamFocusInputs : CamSetFocus(f)
  \/ \E v \in CamExtInputs : CamSetOverride(v)
  \/ \E h \in {Null, Some(10)} : CamSetHighlight(h)
  \/ CamRerender
  \/ \E id \in CamSysInputs, d \in DurationInputs : HookFocusSystem(id, d)
  \/ \E r \in CamRegionInputs : HookFocusRegion(r, Undefined)
  \/ HookResetCamera
  \/ \E gap \in FrameGaps : Tick(gap)
  \/ Remount

SpecCamera == Init /\ [][CameraNext]_vars

\* The viewer is unmounted and not mounted again: the cleanups of the scene's
\* camera effects cancel their pending frames.  The hook lives in the host:
\* it has no cleanup, its controlsRef keeps the controls of the unmounted
\* scene and its pending frame stays requested.
Dispose ==
  /\ ~camera.disposed
  /\ CamStep([CancelIn(CancelIn(camera, "override"), "focus")
               EXCEPT !.disposed = TRUE],
             "dispose", 0)

\* The viewer's life up to its disposal, and the display frames after it.
Mounted == ~camera.disposed

DisposeNext ==
  \/ Mounted /\ \E S \in SystemSets : CamLoad(S)
  \/ Mounted /\ \E f \in CamFocusInputs : CamSetFocus(f)
  \/ Mounted /\ \E v \in CamExtInputs : CamSetOverride(v)
  \/ Mounted /\ \E id \in CamSysInputs, d \in DurationInputs : HookFocusSystem(id, d)
  \/ Mounted /\ HookResetCamera
  \/ \E gap \in FrameGaps : Tick(gap)
  \/ Dispose

SpecDispose == Init /\ [][DisposeNext]_vars

\* mapControl.setCameraPosition(x, y, z) or mapControl.setCameraTarget(x, y, z),
\* named by m: the value is written to the controls and controls.update()
\* is called; no pending frame is cancelled.
DirectPose(m) == [by |-> m, kind |-> "direct", target |-> 0]

HookSetCamera(m) ==
  /\ Mounted
  /\ CamStep([camera EXCEPT !.pose = DirectPose(m), !.latest = Null], m, 0)

\* Direct pose writes among fly-tos of the hook and of the focus prop.
DirectNext ==
  \/ \E S \in SystemSets : CamLoad(S)
  \/ \E f \in CamFocusInputs : CamSetFocus(f)
  \/ \E id \in CamSysInputs, d \in DurationInputs : HookFocusSystem(id, d)
  \/ HookResetCamera
  \/ \E m \in {"setCameraPosition", "setCameraTarget"} : HookSetCamera(m)
  \/ \E gap \in FrameGaps : Tick(gap)

SpecDirect == Init /\ [][DirectNext]_vars

\* Fly-tos given a duration that is no length of time, through the hook and
\* through the focus prop.
AllDurations == DurationInputs \cup InvalidDurations

DurationNext ==
  \/ \E S \in SystemSets : CamLoad(S)
  \/ \E id \in CamSysInputs, d \in InvalidDurations : HookFocusSystem(id, d)
  \/ \E r \in CamRegionInputs : HookFocusRegion(r, Num(-1))
  \/ \E d \in InvalidDurations :
        CamSetFocusDur(Some([type |-> "system", targetId |-> 1]), d)
  \/ \E gap \in FrameGaps : Tick(gap)

SpecDuration == Init /\ [][DurationNext]_vars

\* ---------------------------------------------------------- picking actions
HitStep(h, clicked) ==
  /\ hit' = [h EXCEPT !.clicked = clicked,
                      !.picks = IF clicked THEN @ ELSE [b \in Buckets |-> 0],
                      !.out = IF clicked THEN @ ELSE NoHit]
  /\ UNCHANGED <<viewVars, pubsubVars, camVars, declVars, throttleVars>>

\* SolarSystemPoints renders with new props and React commits: the groups
\* are recomputed, meshes are kept or replaced by their keys, refs point to
\* the mounted meshes.  The effects are left pending; React runs pending
\* effects before it renders again.
HitRender(list, region, ids) ==
  LET groups == SystemGroups(list, region, ids)
  IN /\ ~hit.pending
     /\ <<list, region, ids>> # <<hit.list, hit.region, hit.ids>>
     /\ HitStep([hit EXCEPT !.list = list, !.region = region, !.ids = ids,
                            !.groups = groups,
                            !.meshes = CommitMeshes(hit.meshes, groups),
                            !.pending = TRUE], FALSE)

\* The effects of the commit run: the matrices of every mounted mesh are
\* written and the click listener is replaced by one that closes over the
\* new groups.
HitEffects ==
  /\ hit.pending
  /\ HitStep([hit EXCEPT !.meshes = WriteMatrices(hit.meshes, hit.groups),
                         !.handler = hit.groups,
                         !.pending = FALSE], FALSE)

\* A click on the canvas: the DOM listener runs with the meshes the refs
\* hold now.  Whether the ray hits an instance that was never written
\* depends on the build of the 3D library, so both are possible.
HitClick(picks) ==
  /\ \A b \in Buckets : picks[b] <= Len(hit.meshes[b])
  /\ HitStep([hit EXCEPT !.picks = picks,
                         !.out = ResolveHit(1, picks, hit.handler)], TRUE)

\* Bound on the instances of one mesh.
MaxInstances == 2

HitNext ==
  \/ \E list \in HitLists, region \in HitRegionInputs, ids \in HitIdInputs :
       HitRender(list, region, ids)
  \/ HitEffects
  \/ \E picks \in [Buckets -> 0..MaxInstances] : HitClick(picks)

SpecHit == Init /\ [][HitNext]_vars

\* ------------------------------------------------- label overlap actions
RECURSIVE LabelSeqs(_)
\* The label arrays of length n.
LabelSeqs(n) ==
  IF n = 0 THEN {<<>>}
  ELSE {Append(q, l) : q \in LabelSeqs(n - 1), l \in LabelInputs}

\* detectLabelVisibility(labels, sortFn) is called; labels is the array
\* after sort(sortFn), which may be any order of it.
DeclCall ==
  /\ decl = DeclInit
  /\ \E n \in 1..MaxLabels : \E labels \in LabelSeqs(n) :
       decl' = DeclStart(labels)
  /\ UNCHANGED <<viewVars, pubsubVars, camVars, hitVars, throttleVars>>

\* One pass of the loop over sortedLabels.
DeclLoop ==
  /\ decl.k < Len(decl.labels)
  /\ decl' = DeclPass(decl)
  /\ UNCHANGED <<viewVars, pubsubVars, camVars, hitVars, throttleVars>>

\* The call has returned and the caller calls again with the same labels
\* and the same comparator, keeping the set it got.
DeclRepeat ==
  /\ decl.labels # <<>> /\ decl.k = Len(decl.labels) /\ decl.first = Null
  /\ decl' = [DeclStart(decl.labels) EXCEPT !.first = Some(decl.visible)]
  /\ UNCHANGED <<viewVars, pubsubVars, camVars, hitVars, throttleVars>>

\* The call returns its visible set; its locals are gone.
DeclReturn ==
  /\ decl.labels # <<>> /\ decl.k = Len(decl.labels)
  /\ decl' = DeclInit
  /\ UNCHANGED <<viewVars, pubsubVars, camVars, hitVars, throttleVars>>

DeclNext ==
  \/ DeclCall
  \/ DeclLoop
  \/ DeclRepeat
  \/ DeclReturn

SpecDecl == Init /\ [][DeclNext]_vars

\* ------------------------------------------------- label throttle actions
\* One useFrame callback of the label layer; m is the camera movement since
\* the last frame (the first frame compares the camera with itself).
ThrottleFrame(m) ==
  LET n == throttle.frame + 1
      v == SmoothVelocity(throttle.vel, IF n = 1 THEN 0 ELSE m)
      t == DynamicThreshold(v)
      shouldUpdate == n % t = 0
  IN /\ throttle.frame < MaxFrames
     /\ throttle' = [frame |-> n, vel |-> v, threshold |-> t,
                     since |-> IF shouldUpdate THEN 0 ELSE throttle.since + 1]
     /\ UNCHANGED <<viewVars, pubsubVars, camVars, hitVars, declVars>>

ThrottleNext == \E m \in MovementInputs : ThrottleFrame(m)

SpecThrottle == Init /\ [][ThrottleNext]_vars

TypeOK ==
  /\ loaded \in BOOLEAN
  /\ hSel \in OptSysInputs
  /\ hRegion \in OptRegionInputs
  /\ version \in 0..MaxVersion
  /\ cSel \in OptSysInputs
  /\ cHL \subseteq SysInputs
  /\ cInt \in OptRegionInputs
  /\ ext \in ExtValues
  /\ focus \in FocusValues \cup {Null}
  /\ subs \subseteq Callbacks

\* ================================================================== claims
\* Fly-tos of the last step whose target is a region.
RegionFlights == {i \in 1..Len(flyLog) : flyLog[i].kind = "region"}

\* ---------------------------------------------------------------------- C1
\* C1 as stated: with no override active, selecting a dataset system s by
\* mapControl.selectSystem(s) or by a click leaves selectedSystemId = s,
\* highlightedSystemIds = {s} and the highlighted region = regionID of s,
\* whatever selections, focus requests or region highlights came before.
C1_SelectionConsistency_AsStated ==
  /\ (lastOp = "selectSystem" /\ lastArg # Null /\ lastArg[1] \in Systems(loaded) /\ ~ext.set)
       => /\ hSel = lastArg
          /\ hHL = <<lastArg[1]>>
          /\ hRegion = Some(RegionOf[lastArg[1]])
  /\ (lastOp = "click" /\ ~ext.set)
       => /\ cSel = lastArg
          /\ cHL = {lastArg[1]}
          /\ highlightedRegionId = Some(RegionOf[lastArg[1]])

\* C1 amended: the same, except that a click made while the focus prop holds
\* a system focus request only sets selectedSystemId; the highlighted systems
\* and region stay those of the focus request.
C1_SelectionConsistency ==
  /\ (lastOp = "selectSystem" /\ lastArg # Null /\ lastArg[1] \in Systems(loaded) /\ ~ext.set)
       => /\ hSel = lastArg
          /\ hHL = <<lastArg[1]>>
          /\ hRegion = Some(RegionOf[lastArg[1]])
  /\ (lastOp = "click" /\ ~ext.set)
       => /\ cSel = lastArg
          /\ ~IsSystemFocus(focus)
               => /\ cHL = {lastArg[1]}
                  /\ highlightedRegionId = Some(RegionOf[lastArg[1]])

\* A click on system 3 after a region focus on region 10, no override.
C1_Witness ==
  /\ lastOp = "click" /\ lastArg = Some(3) /\ ~ext.set
  /\ focus = Some([type |-> "region", targetId |-> 10])
  /\ cHL = {3}

\* ---------------------------------------------------------------------- C2
\* C2 as stated: while the override is set, a selection (selectSystem call or
\* click) does not change the highlighted systems.
C2_OverridePrecedence_AsStated ==
  [][(ext.set /\ lastOp' \in {"selectSystem", "click"})
       => (hHL' = hHL /\ cHL' = cHL)]_vars

\* C2 amended: while the override is set, a selection does not change the
\* viewer's highlightedSystemIds nor its highlighted region, which stays the
\* override value; mapControl.selectSystem still rewrites the hook's own list.
C2_OverridePrecedence ==
  [][(ext.set /\ lastOp' \in {"selectSystem", "click"})
       => /\ cHL' = cHL
          /\ highlightedRegionId' = ext.val
          /\ (lastOp' = "selectSystem" /\ lastArg' # Null) => hHL' = <<lastArg'[1]>>]_vars

\* selectSystem(3) called under the override 10.
C2_Witness ==
  /\ lastOp = "selectSystem" /\ lastArg = Some(3)
  /\ ext = [set |-> TRUE, val |-> Some(10)]
  /\ cHL = {} /\ highlightedRegionId = Some(10)

\* ---------------------------------------------------------------------- C3
\* C3 as stated: under an override a click leaves selectedSystemId as it
\* was, and onSystemClick is invoked with the clicked system.
C3_ClickUnderOverride_AsStated ==
  [][(ext.set /\ lastOp' = "click")
       => (cSel' = cSel /\ cbClick' = lastArg')]_vars

\* C3 amended: under an override a click derives no highlight (the
\* highlighted systems and the internal region are unchanged) but does set
\* selectedSystemId to the clicked system; onSystemClick is invoked.
C3_ClickUnderOverride ==
  [][(ext.set /\ lastOp' = "click")
       => /\ cHL' = cHL /\ cInt' = cInt
          /\ cSel' = lastArg'
          /\ cbClick' = lastArg']_vars

\* A click on system 3 under the override 10, nothing selected before.
C3_Witness ==
  /\ lastOp = "click" /\ cbClick = Some(3)
  /\ ext = [set |-> TRUE, val |-> Some(10)]
  /\ cSel = Some(3) /\ cHL = {}

\* ---------------------------------------------------------------------- C4
\* C4: the highlighted region passed to the scene is the override value when
\* the override is set, else the internal region when there is one, else the
\* target of the current region focus, else null.
C4_RegionPrecedence ==
  /\ ext.set => highlightedRegionId = ext.val
  /\ (~ext.set /\ cInt # Null) => highlightedRegionId = cInt
  /\ (~ext.set /\ cInt = Null /\ IsRegionFocus(focus))
       => highlightedRegionId = Some(focus[1].targetId)
  /\ (~ext.set /\ cInt = Null /\ ~IsRegionFocus(focus)) => highlightedRegionId = Null

\* An internal region (20, from a selection) wins over a region focus (10).
C4_Witness ==
  /\ ~ext.set /\ cInt = Some(20)
  /\ focus = Some([type |-> "region", targetId |-> 10])
  /\ highlightedRegionId = Some(20)

C6_HighlightRegion_AsStated ==
  lastOp = "highlightRegion" => (hSel = Null /\ hHL = <<>> /\ hRegion = lastArg)

\* C6 amended: after highlightRegion(id) the hook's region is id; the
\* selection and the highlighted systems are cleared when id is not null.
C6_HighlightRegion ==
  lastOp = "highlightRegion"
    => /\ hRegion = lastArg
       /\ lastArg # Null => (hSel = Null /\ hHL = <<>>)

\* highlightRegion(20) after a selectSystem.
C6_Witness ==
  /\ lastOp = "highlightRegion" /\ lastArg = Some(20)
  /\ version = 2 /\ hSel = Null /\ hHL = <<>> /\ hRegion = Some(20)

\* ---------------------------------------------------------------------- C7
\* C7 as stated: highlightRegion(id) starts a region fly-to, and no other
\* change of the highlighted region (by focus, selection or the override
\* prop) starts a fly-to to a region.
C7_RegionFlyTo_AsStated ==
  /\ (lastOp = "highlightRegion" /\ lastArg # Null
        /\ RegionSystems(Systems(loaded), lastArg[1]) # {})
       => \E i \in RegionFlights : flyLog[i].by = "focusRegion" /\ flyLog[i].target = lastArg[1]
  /\ (lastOp \in {"selectSystem", "click", "deselect", "setExternalRegionOverride"}
        \/ (lastOp = "applyFocus" /\ IsSystemFocus(focus)))
       => RegionFlights = {}

\* C7 amended: highlightRegion(id) for a non-null region with loaded systems
\* starts a region fly-to; a selection or a system focus request, which only
\* imply a region, start none; but a change of the override prop to a region
\* with loaded systems, other than the region the scene last flew to for the
\* prop, does start a region fly-to (the scene's own camera effect).
C7_RegionFlyTo ==
  [][/\ (lastOp' = "highlightRegion" /\ lastArg' # Null
           /\ RegionSystems(Systems(loaded), lastArg'[1]) # {})
          => \E i \in RegionFlights' :
               flyLog'[i].by = "focusRegion" /\ flyLog'[i].target = lastArg'[1]
     /\ (lastOp' \in {"selectSystem", "click", "deselect"}
           \/ (lastOp' = "applyFocus" /\ IsSystemFocus(focus')))
          => RegionFlights' = {}
     /\ lastOp' = "setExternalRegionOverride"
          => LET starts == /\ ext' # ext /\ ext'.set /\ ext'.val # Null
                           /\ ext'.val # lastOvRef
                           /\ RegionSystems(Systems(loaded), ext'.val[1]) # {}
             IN /\ starts => /\ RegionFlights' # {}
                             /\ ovAnim' = Some([kind |-> "region", target |-> ext'.val[1]])
                /\ \A i \in RegionFlights' :
                     /\ starts
                     /\ flyLog'[i].by = "overrideEffect"
                     /\ flyLog'[i].target = ext'.val[1]]_vars

\* highlightRegion(20) with the dataset loaded started the fly-to.
C7_Witness ==
  /\ lastOp = "highlightRegion" /\ lastArg = Some(20) /\ loaded
  /\ hookAnim = Some([kind |-> "region", target |-> 20])
  /\ RegionFlights # {}

\* ---------------------------------------------------------------------- C8
\* C8: a system focus request always sets selectedSystemId and the
\* highlighted systems to its target; the internal region becomes the
\* target's region when no override is set, and stays unset under one.
C8_SystemFocus ==
  (lastOp = "applyFocus" /\ IsSystemFocus(focus))
    => /\ cSel = Some(focus[1].targetId)
       /\ cHL = {focus[1].targetId}
       /\ ext.set => cInt = Null
       /\ (~ext.set /\ focus[1].targetId \in Systems(loaded))
            => cInt = Some(RegionOf[focus[1].targetId])

\* A system focus on 1 applied under the override 10.
C8_Witness ==
  /\ lastOp = "applyFocus" /\ focus = Some([type |-> "system", targetId |-> 1])
  /\ ext = [set |-> TRUE, val |-> Some(10)] /\ loaded
  /\ cSel = Some(1) /\ cInt = Null

\* ---------------------------------------------------------------------- C9
\* C9: after a region focus request with no override, nothing is selected,
\* no system is highlighted, no internal region is set and the highlighted
\* region is the focus target.
C9_RegionFocus ==
  (lastOp = "applyFocus" /\ IsRegionFocus(focus) /\ ~ext.set)
    => /\ cSel = Null
       /\ cHL = {}
       /\ cInt = Null
       /\ highlightedRegionId = Some(focus[1].targetId)

\* --------------------------------------------------------------------- C10
\* C10: selectSystem(null), and the viewer's Deselect, clear the selection
\* and the highlighted systems and leave the highlighted regions (the hook's,
\* the internal one and the one passed to the scene) as they were.
C10_Deselect ==
  [][/\ (lastOp' = "selectSystem" /\ lastArg' = Null)
          => /\ hSel' = Null /\ hHL' = <<>>
             /\ hRegion' = hRegion
             /\ cInt' = cInt
             /\ highlightedRegionId' = highlightedRegionId
     /\ lastOp' = "deselect"
          => /\ cSel' = Null /\ cHL' = {}
             /\ cInt' = cInt
             /\ highlightedRegionId' = highlightedRegionId]_vars

\* selectSystem(null) after a selection that had set region 20.
C10_Witness ==
  /\ lastOp = "selectSystem" /\ lastArg = Null
  /\ hSel = Null /\ hHL = <<>> /\ hRegion = Some(20) /\ version = 2

LatestCompleted == camera.latest # Null /\ camera.latest[1].state = "completed"

\* C13: cancellation soundness.  When a fly-to is started while another is
\* still running and all animation has ended, the camera is at the target
\* pose of the fly-to started last.
C13_CancellationSound ==
  (camera.q = <<>> /\ LatestCompleted) => camera.pose = camera.latest[1].to

\* C14: completion exactness.  Once the fly-to started last (so one that
\* nothing superseded) has run for its duration, the camera pose is its
\* target pose.
C14_CompletionExact ==
  LatestCompleted => camera.pose = camera.latest[1].to

\* C15: onFocusComplete is invoked at most once for a focus request.
C15_CompleteOnce == camera.done <= 1

\* Whether the hook's fly-to on id finds no system to fly to.
ZeroMembers(op, id, S) ==
  \/ op = "focusSystem" /\ id \notin S
  \/ op = "focusRegion" /\ RegionSystems(S, id) = {}

\* C16: focusSystem on a system that is not in the scene and focusRegion on
\* a region without systems in the scene start no animation, cancel none and
\* leave the camera pose as it was.
C16_ZeroMembersNoop ==
  [][ZeroMembers(camera'.op, camera'.arg, camera.systems)
       => /\ camera'.q = camera.q
          /\ camera'.pose = camera.pose
          /\ camera'.latest = camera.latest]_vars

\* A fly-to is half way when focusSystem is called on a system that the
\* filter removed, and goes on.
C16_Witness ==
  /\ camera.op = "focusSystem" /\ camera.arg = 3 /\ camera.systems = {1}
  /\ Len(camera.q) = 1 /\ camera.q[1].owner = "focus" /\ camera.q[1].el = 1
  /\ camera.pose.kind = "mid"

C18_HitAddressing ==
  (hit.clicked /\ hit.out.hit) => hit.meshes[hit.out.bucket][hit.out.index] = hit.out.id

\* The buckets whose pick is out of range for the group the handler holds.
OutOfRange == {b \in Buckets : hit.picks[b] > Len(hit.handler[b])}

\* C19: a pick whose index is out of range for its bucket is treated as a
\* miss of that bucket: handleClick reports no system of that bucket, reads
\* no element that does not exist, and reports what it would report had
\* the ray missed that bucket.
C19_OutOfRangeIsMiss ==
  hit.clicked =>
    \A b \in OutOfRange :
      /\ hit.out.bucket # b
      /\ hit.out.hit => hit.out.id # 0
      /\ hit.out = ResolveHit(1, [hit.picks EXCEPT ![b] = 0], hit.handler)

\* The ray hits the second instance of a new mesh while the handler still
\* holds a group of one system for that bucket, and a mesh behind it:
\* the system of the mesh behind is reported.
C19_Witness ==
  /\ hit.clicked /\ hit.pending
  /\ \E b \in OutOfRange : hit.picks[b] = 2 /\ Len(hit.handler[b]) = 1
  /\ hit.out.hit

\* ----------------------------------------------------- label overlap claims
\* The call has returned.
DeclReturned == decl.labels # <<>> /\ decl.k = Len(decl.labels)

\* C20: declutter non-overlap.  No two labels of the returned visible set
\* have overlapping screen boxes.
C20_NoOverlap ==
  DeclReturned =>
    \A a, b \in decl.visible : a # b => ~CheckLabelOverlap(decl.labels[a], decl.labels[b])

\* A visible label spans several cells; a label whose centre lies in
\* another cell overlaps it and is hidden; a third label that only touches
\* a visible one is visible.
C20_Witness ==
  /\ DeclReturned /\ Len(decl.labels) = 3 /\ Cardinality(decl.visible) = 2
  /\ \E v \in decl.visible, n \in 1..3 \ decl.visible :
       /\ Cardinality(GetOccupiedCells(decl.labels[v])) > 1
       /\ CheckLabelOverlap(decl.labels[v], decl.labels[n])
       /\ decl.labels[v].x # decl.labels[n].x
  /\ \E v, u \in decl.visible :
       /\ v # u
       /\ 2 * Abs(decl.labels[v].y - decl.labels[u].y) = decl.labels[v].h + decl.labels[u].h
       /\ decl.labels[v].x = decl.labels[u].x

\* The array without its j-th label.
RemoveLabel(labels, j) == [i \in 1..(Len(labels) - 1) |-> IF i < j THEN labels[i] ELSE labels[i + 1]]

\* C21: declutter monotonicity.  Removing a label from the input leaves
\* every label of higher priority in the output exactly when it was there
\* before.
C21_Monotone ==
  DeclReturned =>
    \A j \in 1..Len(decl.labels) :
      \A i \in 1..(j - 1) :
        i \in decl.visible <=> i \in DetectLabelVisibility(RemoveLabel(decl.labels, j))

\* Of three labels the second hides the third; without the second the third
\* is visible, and the first is visible with and without it.
C21_Witness ==
  /\ DeclReturned /\ Len(decl.labels) = 3 /\ decl.visible = {1, 2}
  /\ CheckLabelOverlap(decl.labels[2], decl.labels[3])
  /\ DetectLabelVisibility(RemoveLabel(decl.labels, 2)) = {1, 2}

ReachesOne(dur) ==
  \E el \in {n \in {d.v : d \in AllDurations} \cup {DefaultDuration} : n > 0} :
     Progress(el, dur) = "one"

\* C23: a fly-to given a non-finite or non-positive animation duration
\* behaves as with a safe default duration: no frame writes a pose computed
\* from the bad value (NaN coordinates, or a pose extrapolated away from the
\* target), and every pending session is one that ends at its target after
\* finitely many frames.
C23_InvalidDurationClamped ==
  /\ camera.pose.kind \notin {"nan", "beyond"}
  /\ \A i \in 1..Len(camera.q) : ReachesOne(camera.q[i].dur)

\* ------------------------------------------------------ subscriber claims
\* C24: whenever a subscriber is invoked for a mutation, the state it reads
\* inside the callback through getSelectedSystemId, getHighlightedRegionId
\* and getHighlightedSystemIds is the complete state after the mutation.
C24_CallbackSeesMutation ==
  [][(\E cb \in Callbacks : notified'[cb] > 0)
       => GettersInCallback([sel |-> hSel, region |-> hRegion, hl |-> hHL])
            = [sel |-> hSel', region |-> hRegion', hl |-> hHL']]_vars

\* ------------------------------------------------------- session claims
\* C25: at most one animation session is active at any instant: starting a
\* fly-to (a hook call or a focus or override request) leaves no earlier
\* session with a pending frame, so no two sessions write the pose in turn.
C25_OneSession == Len(camera.q) <= 1

C28_NoFrameAfterDispose ==
  [][camera.disposed => /\ camera'.pose = camera.pose
                        /\ camera'.done = camera.done]_vars

\* ------------------------------------------------------- throttle claims
\* C29: for every camera-motion pattern the frame-skip count stays between
\* the minimum (5) and the maximum (30), and the labels are recomputed at
\* least once in every window of 30 consecutive frames.
C29_NoStarvation ==
  /\ throttle.threshold \in MIN_STABILITY_THRESHOLD..MAX_STABILITY_THRESHOLD
  /\ throttle.since < MAX_STABILITY_THRESHOLD

\* --------------------------------------------------- direct write claims
\* C30: a direct pose write (setCameraPosition, setCameraTarget) is not
\* overwritten by an animation that was in flight when it was issued: in
\* the display frames that follow the call, with no other operation, the
\* pose stays the written one.
C30_DirectWriteKept ==
  [][(camera.pose.kind = "direct" /\ \E gap \in FrameGaps : Tick(gap))
       => camera'.pose = camera.pose]_vars

====
